---- MODULE Spec2Model ----
(***************************************************************************)
(* A model of sk.c, the socket-level timestamping layer of linuxptp with   *)
(* the SJA1105 transparent-clock additions.                                *)
(*                                                                         *)
(* The process is single threaded.  Every public function of sk.c is one   *)
(* action: the caller, idle, calls it with inputs and with the answers of  *)
(* the kernel, the driver and the switch drawn from small sets; the action *)
(* runs the whole function and leaves in `last` what the call did (its     *)
(* arguments, the system calls it issued in order, what it wrote through   *)
(* its out-parameters and what it returned).  The caller then takes the    *)
(* result (CallerContinues) and is free to call again.                     *)
(*                                                                         *)
(* Bit masks (poll events, SOF_TIMESTAMPING_* flags) are sets of bit       *)
(* names: | is \cup, & is \cap, 0 is {}.  Enumerators are strings.         *)
(***************************************************************************)
EXTENDS Integers, Sequences, FiniteSets, TLC

VARIABLES
    SJA1105_TC,        \* TRUE iff sk.c was compiled with -DSJA1105_TC
    sk_events,         \* static short sk_events
    sk_revents,        \* static short sk_revents
    sk_check_fupsync,  \* int sk_check_fupsync
    tc,                \* the transparent clock: master_setup, interface->sync
    sync_tx_ts,        \* the egress timestamp ptp_insert_correction reads
    egress_ts_tmp,     \* the egress timestamp cache sk_receive writes
    last               \* the call in progress or just returned, "idle" otherwise

vars == <<SJA1105_TC, sk_events, sk_revents, sk_check_fupsync, tc,
          sync_tx_ts, egress_ts_tmp, last>>

globals == <<SJA1105_TC, sk_events, sk_revents, sk_check_fupsync, tc,
             sync_tx_ts, egress_ts_tmp>>

Idle == [op |-> "idle"]

(***************************************************************************)
(* Enumerations of sk.h / transport.h as sk.c uses them.                   *)
(***************************************************************************)
HwKinds == {"TS_HARDWARE", "TS_ONESTEP", "TS_LEGACY_HW"}

TimestampTypes == {"TS_SOFTWARE"} \cup HwKinds

\* what a caller can pass as `type`: the enumerators, and a value outside them
TimestampInputs == TimestampTypes \cup {"TS_OUT_OF_RANGE"}

UdpTransports == {"TRANS_UDP_IPV4", "TRANS_UDP_IPV6"}

MappedTransports == UdpTransports \cup {"TRANS_IEEE_802_3"}

UnmappedTransports ==
    {"TRANS_DEVICENET", "TRANS_CONTROLNET", "TRANS_PROFINET", "TRANS_UDS"}

TransportTypes == MappedTransports \cup UnmappedTransports

NoFilter == "no filter mapping"

(***************************************************************************)
(* hwts_init: one SIOCSHWTSTAMP attempt.  drv is the driver's answer: the  *)
(* ioctl's result and, when it succeeded, the configuration it wrote back  *)
(* into cfg.  req is the copy of the request taken before the ioctl.       *)
(***************************************************************************)
HwtstampConfig(flags, tx_type, rx_filter) ==
    [flags |-> flags, tx_type |-> tx_type, rx_filter |-> rx_filter]

HwtsRequest(rx_filter, one_step) ==
    HwtstampConfig(0,
                   IF one_step # 0 THEN "HWTSTAMP_TX_ONESTEP_SYNC"
                                   ELSE "HWTSTAMP_TX_ON",
                   rx_filter)

hwts_init(rx_filter, one_step, drv) ==
    LET req == HwtsRequest(rx_filter, one_step)
        cfg == IF drv.err < 0 THEN req ELSE drv.cfg
    IN  [req |-> req, cfg |-> cfg, ioctl_err |-> drv.err,
         err |-> IF drv.err < 0
                    THEN drv.err
                 ELSE IF /\ cfg # req           \* memcmp(&cfg, &req, sizeof(cfg))
                         /\ \/ cfg.tx_type # req.tx_type
                            \/ /\ cfg.rx_filter # "HWTSTAMP_FILTER_ALL"
                               /\ cfg.rx_filter # "HWTSTAMP_FILTER_PTP_V2_EVENT"
                    THEN -1
                 ELSE 0]

OtherTxType(tx_type) ==
    IF tx_type = "HWTSTAMP_TX_ON" THEN "HWTSTAMP_TX_ONESTEP_SYNC"
                                  ELSE "HWTSTAMP_TX_ON"

\* The answers a driver gives to a request: the ioctl fails, or it succeeds and
\* echoes the request unchanged, with another transmit mode, with another
\* receive filter, with the reserved flags word changed, or with both the
\* transmit mode and the filter changed.
DriverResponses(req) ==
    {[err |-> -1, cfg |-> req]} \cup
    {[err |-> 0, cfg |-> c] : c \in
        {req,
         [req EXCEPT !.tx_type = OtherTxType(req.tx_type)],
         [req EXCEPT !.rx_filter = "HWTSTAMP_FILTER_ALL"],
         [req EXCEPT !.rx_filter = "HWTSTAMP_FILTER_PTP_V2_EVENT"],
         [req EXCEPT !.rx_filter = "HWTSTAMP_FILTER_NONE"],
         [req EXCEPT !.flags = 1],
         [req EXCEPT !.tx_type = OtherTxType(req.tx_type),
                     !.rx_filter = "HWTSTAMP_FILTER_ALL"]}}

(***************************************************************************)
(* sk_timestamping_init, first switch: the SO_TIMESTAMPING flags of a      *)
(* timestamp type ({} stands for the default branch, which returns -1).    *)
(***************************************************************************)
TimestampingFlags(type) ==
    CASE type = "TS_SOFTWARE" ->
            {"SOF_TIMESTAMPING_TX_SOFTWARE", "SOF_TIMESTAMPING_RX_SOFTWARE",
             "SOF_TIMESTAMPING_SOFTWARE"}
      [] type \in {"TS_HARDWARE", "TS_ONESTEP"} ->
            {"SOF_TIMESTAMPING_TX_HARDWARE", "SOF_TIMESTAMPING_RX_HARDWARE",
             "SOF_TIMESTAMPING_RAW_HARDWARE"}
      [] type = "TS_LEGACY_HW" ->
            {"SOF_TIMESTAMPING_TX_HARDWARE", "SOF_TIMESTAMPING_RX_HARDWARE",
             "SOF_TIMESTAMPING_SYS_HARDWARE"}
      [] OTHER -> {}

(***************************************************************************)
(* sk_timestamping_init, second switch: the transport-specific filter.     *)
(***************************************************************************)
\* mutant: the unmapped transports fall through to the L2 filter
Filter2_unmapped_fall_through(transport) ==
    IF transport \in UdpTransports THEN "HWTSTAMP_FILTER_PTP_V2_L4_EVENT"
                                   ELSE "HWTSTAMP_FILTER_PTP_V2_L2_EVENT"

Filter2(transport) ==
    CASE transport \in {"TRANS_UDP_IPV4", "TRANS_UDP_IPV6"} ->
            "HWTSTAMP_FILTER_PTP_V2_L4_EVENT"
      [] transport = "TRANS_IEEE_802_3" ->
            "HWTSTAMP_FILTER_PTP_V2_L2_EVENT"
      [] transport \in {"TRANS_DEVICENET", "TRANS_CONTROLNET",
                        "TRANS_PROFINET", "TRANS_UDS"} ->
            NoFilter

(***************************************************************************)
(* sk_timestamping_init, the negotiation: the hwts_init attempts of one    *)
(* call, in order, for every pair of driver answers.                       *)
(***************************************************************************)
Attempts(rx_filter, one_step) ==
    {hwts_init(rx_filter, one_step, drv) :
        drv \in DriverResponses(HwtsRequest(rx_filter, one_step))}

\* mutant: the fallback attempt is made whether or not the first one failed
HwtsNegotiation_always_retry(type, transport) ==
    LET one_step == IF type = "TS_ONESTEP" THEN 1 ELSE 0
    IN  {<<a1, a2>> :
            a1 \in Attempts("HWTSTAMP_FILTER_PTP_V2_EVENT", one_step),
            a2 \in Attempts(Filter2(transport), one_step)}

HwtsNegotiation(type, transport) ==
    LET filter1  == "HWTSTAMP_FILTER_PTP_V2_EVENT"
        one_step == IF type = "TS_ONESTEP" THEN 1 ELSE 0
        filter2  == Filter2(transport)
        first    == Attempts(filter1, one_step)
    IN  {<<a1>> : a1 \in {a \in first : a.err = 0}}
        \cup
        {<<a1, a2>> : a1 \in {a \in first : a.err # 0},
                      a2 \in Attempts(filter2, one_step)}

\* what sk_timestamping_init has in err after the negotiation
NegotiationErr(ioctls) == ioctls[Len(ioctls)].err

(***************************************************************************)
(* sk_general_init: SO_TIMESTAMPNS is set to sk_check_fupsync ? 1 : 0.     *)
(***************************************************************************)
Setsockopt(opt, val, res) == [opt |-> opt, val |-> val, res |-> res]

\* mutant: SO_TIMESTAMPNS is switched on whatever sk_check_fupsync holds
sk_general_init_always_on(fupsync, res) ==
    [call |-> Setsockopt("SO_TIMESTAMPNS", 1, res),
     ret  |-> IF res < 0 THEN -1 ELSE 0]

sk_general_init(fupsync, res) ==
    [call |-> Setsockopt("SO_TIMESTAMPNS", IF fupsync # 0 THEN 1 ELSE 0, res),
     ret  |-> IF res < 0 THEN -1 ELSE 0]

SyscallResults == {0, -1}

(***************************************************************************)
(* sk_timestamping_init, from the SO_TIMESTAMPING setsockopt to the end.   *)
(* Each run: the setsockopt calls made, whether the error-queue mode was   *)
(* degraded, and the value returned.                                       *)
(***************************************************************************)
\* mutant: a rejected SO_SELECT_ERR_QUEUE leaves the poll events as they were
SocketOptionRuns_no_degrade(flags, fupsync) ==
    {[sockopts |-> <<Setsockopt("SO_TIMESTAMPING", flags, -1)>>,
      degrade  |-> FALSE,
      ret      |-> -1]}
    \cup
    {LET g == sk_general_init(fupsync, r_ns)
     IN  [sockopts |-> <<Setsockopt("SO_TIMESTAMPING", flags, 0),
                         Setsockopt("SO_SELECT_ERR_QUEUE", 1, r_eq),
                         g.call>>,
          degrade  |-> FALSE,
          ret      |-> IF g.ret # 0 THEN -1 ELSE 0] :
        r_eq \in SyscallResults, r_ns \in SyscallResults}

SocketOptionRuns(flags, fupsync) ==
    {[sockopts |-> <<Setsockopt("SO_TIMESTAMPING", flags, -1)>>,
      degrade  |-> FALSE,
      ret      |-> -1]}
    \cup
    {LET g == sk_general_init(fupsync, r_ns)
     IN  [sockopts |-> <<Setsockopt("SO_TIMESTAMPING", flags, 0),
                         Setsockopt("SO_SELECT_ERR_QUEUE", 1, r_eq),
                         g.call>>,
          degrade  |-> r_eq < 0,
          ret      |-> IF g.ret # 0 THEN -1 ELSE 0] :
        r_eq \in SyscallResults, r_ns \in SyscallResults}

(***************************************************************************)
(* sk_timestamping_init: every run of the function for given arguments.    *)
(***************************************************************************)
\* mutant: `if (type != TS_SOFTWARE)` is lost, software negotiates as well
TimestampingInitRuns_no_software_skip(type, transport, fupsync) ==
    LET flags  == TimestampingFlags(type)
        early  == {[ioctls |-> <<>>, sockopts |-> <<>>,
                    degrade |-> FALSE, ret |-> -1]}
        finish(ioctls) ==
            {[ioctls |-> ioctls, sockopts |-> s.sockopts,
              degrade |-> s.degrade, ret |-> s.ret] :
                s \in SocketOptionRuns(flags, fupsync)}
    IN  IF type \notin TimestampTypes THEN early
        ELSE IF Filter2(transport) = NoFilter THEN early
        ELSE UNION {IF NegotiationErr(n) # 0
                       THEN {[ioctls |-> n, sockopts |-> <<>>,
                              degrade |-> FALSE, ret |-> NegotiationErr(n)]}
                       ELSE finish(n) :
                    n \in HwtsNegotiation(type, transport)}

TimestampingInitRuns(type, transport, fupsync) ==
    LET flags  == TimestampingFlags(type)
        early  == {[ioctls |-> <<>>, sockopts |-> <<>>,
                    degrade |-> FALSE, ret |-> -1]}
        finish(ioctls) ==
            {[ioctls |-> ioctls, sockopts |-> s.sockopts,
              degrade |-> s.degrade, ret |-> s.ret] :
                s \in SocketOptionRuns(flags, fupsync)}
    IN  IF type \notin TimestampTypes THEN early     \* default: return -1
        ELSE IF type = "TS_SOFTWARE" THEN finish(<<>>)
        ELSE IF Filter2(transport) = NoFilter THEN early
        ELSE UNION {IF NegotiationErr(n) # 0
                       THEN {[ioctls |-> n, sockopts |-> <<>>,
                              degrade |-> FALSE, ret |-> NegotiationErr(n)]}
                       ELSE finish(n) :
                    n \in HwtsNegotiation(type, transport)}

sk_timestamping_init ==
    /\ last = Idle
    /\ \E type \in TimestampInputs, transport \in TransportTypes :
         \E run \in TimestampingInitRuns(type, transport, sk_check_fupsync) :
            /\ last' = [op |-> "sk_timestamping_init", type |-> type,
                        transport |-> transport, ioctls |-> run.ioctls,
                        sockopts |-> run.sockopts, ret |-> run.ret]
            /\ sk_events'  = IF run.degrade THEN {} ELSE sk_events
            /\ sk_revents' = IF run.degrade THEN {"POLLERR"} ELSE sk_revents
    /\ UNCHANGED <<SJA1105_TC, sk_check_fupsync, tc, sync_tx_ts, egress_ts_tmp>>

(***************************************************************************)
(* Timestamps and the hw_timestamp handle.  The handle is the caller's,    *)
(* made for one call: it comes in with its type set and with ts and sw     *)
(* holding whatever the caller left there (Stale).                         *)
(***************************************************************************)
Timespec(sec, nsec) == [tv_sec |-> sec, tv_nsec |-> nsec]

ZeroTimespec == Timespec(0, 0)

Stale == Timespec(99, 99)

HwTimestamps == {[type |-> t, ts |-> Stale, sw |-> Stale] : t \in TimestampTypes}

(***************************************************************************)
(* The transmit-timestamp poll of sk_receive (flags == MSG_ERRQUEUE).      *)
(* poll() answers -1, 0, or 1 with revents taken from the requested events *)
(* and the events poll always reports.                                     *)
(***************************************************************************)
PollAnswers(events) ==
    {[res |-> -1, revents |-> {}], [res |-> 0, revents |-> {}]}
    \cup
    {[res |-> 1, revents |-> r] :
        r \in {{e} : e \in events \cup {"POLLERR", "POLLHUP"}}
              \cup {events \cup {"POLLERR"}}}

\* mutant: every failure of the poll, the timeout included, returns -1
TxPoll_timeout_as_error(answer, revents_mask) ==
    IF answer.res < 1
        THEN [proceed |-> FALSE, ret |-> -1]
    ELSE IF answer.revents \cap revents_mask = {}
        THEN [proceed |-> FALSE, ret |-> -1]
    ELSE [proceed |-> TRUE, ret |-> 0]

\* mutant: any wakeup of the poll is taken for the error-queue event
TxPoll_any_wakeup(answer, revents_mask) ==
    IF answer.res < 1
        THEN [proceed |-> FALSE, ret |-> answer.res]
    ELSE [proceed |-> TRUE, ret |-> 0]

\* proceed: the function goes on to recvmsg; otherwise it returns ret
TxPoll(answer, revents_mask) ==
    IF answer.res < 1
        THEN [proceed |-> FALSE, ret |-> answer.res]
    ELSE IF answer.revents \cap revents_mask = {}
        THEN [proceed |-> FALSE, ret |-> -1]
    ELSE [proceed |-> TRUE, ret |-> 0]

\* int sk_tx_timeout = 1: nothing in sk.c assigns it
sk_tx_timeout == 1

\* The polls of one call: none unless flags == MSG_ERRQUEUE.
TxPollRuns(flags, events, revents_mask) ==
    IF flags = "MSG_ERRQUEUE"
        THEN {[polls |-> <<[events |-> events, timeout |-> sk_tx_timeout,
                            res |-> a.res, revents |-> a.revents]>>,
               proceed |-> TxPoll(a, revents_mask).proceed,
               ret |-> TxPoll(a, revents_mask).ret] : a \in PollAnswers(events)}
        ELSE {[polls |-> <<>>, proceed |-> TRUE, ret |-> 0]}

ReceiveFlags == {"0", "MSG_ERRQUEUE"}

(***************************************************************************)
(* Control messages.  cmsg_len counts the cmsghdr and the payload, as the  *)
(* kernel sets it; data are the whole timespecs the payload holds, which   *)
(* CMSG_DATA(cm) points to.  A read of a timespec the payload does not     *)
(* hold reads what follows the record in control[]: any value.             *)
(***************************************************************************)
SizeofTimespec == 16

SizeofCmsghdr == 16

MaxCmsgs == 2

CmsgKinds ==
    {[cmsg_level |-> "SOL_SOCKET", cmsg_type |-> "SO_TIMESTAMPING"],
     [cmsg_level |-> "SOL_SOCKET", cmsg_type |-> "SO_TIMESTAMPNS"],
     [cmsg_level |-> "SOL_IP",     cmsg_type |-> "IP_RECVERR"]}

\* the record at position pos of a chain, holding n timespecs
Cmsg(kind, pos, n) ==
    [cmsg_level |-> kind.cmsg_level,
     cmsg_type  |-> kind.cmsg_type,
     cmsg_len   |-> SizeofCmsghdr + n * SizeofTimespec,
     data       |-> [i \in 1..n |-> Timespec(10 * pos + i, 100 * pos + i)]]

CmsgChains ==
    UNION {{[pos \in 1..len |-> Cmsg(k[pos], pos, n[pos])] :
                k \in [1..len -> CmsgKinds], n \in [1..len -> 0..3]} :
           len \in 0..MaxCmsgs}

BeyondRecord == {ZeroTimespec, Timespec(7, 7)}

\* ((struct timespec *) CMSG_DATA(cm))[slot]
ReadTimespec(cm, slot, beyond) ==
    IF slot + 1 <= Len(cm.data) THEN cm.data[slot + 1] ELSE beyond

ReadsBeyond(cm, slot) == slot + 1 > Len(cm.data)

IsTimestamping(cm) ==
    cm.cmsg_level = "SOL_SOCKET" /\ cm.cmsg_type = "SO_TIMESTAMPING"

IsTimestampns(cm) ==
    cm.cmsg_level = "SOL_SOCKET" /\ cm.cmsg_type = "SO_TIMESTAMPNS"

(***************************************************************************)
(* The control-message loop of sk_receive.  st: ts is <<the record the     *)
(* pointer ts points into>> (<<>> for NULL), sw the value of hwts->sw,     *)
(* short is set when the loop returned -1, beyond when a read went past a  *)
(* record's payload.                                                       *)
(***************************************************************************)
RECURSIVE CmsgLoop(_, _, _)
CmsgLoop(chain, st, beyond) ==
    IF chain = <<>> THEN st
    ELSE LET cm == Head(chain)
         IN  IF IsTimestamping(cm) /\ cm.cmsg_len < SizeofTimespec * 3
                 THEN [st EXCEPT !.short = TRUE]
             ELSE IF IsTimestampns(cm) /\ cm.cmsg_len < SizeofTimespec
                 THEN [st EXCEPT !.short = TRUE]
             ELSE CmsgLoop(Tail(chain),
                           [ts     |-> IF IsTimestamping(cm) THEN <<cm>> ELSE st.ts,
                            sw     |-> IF IsTimestampns(cm)
                                          THEN ReadTimespec(cm, 0, beyond)
                                          ELSE st.sw,
                            short  |-> FALSE,
                            beyond |-> \/ st.beyond
                                       \/ IsTimestampns(cm) /\ ReadsBeyond(cm, 0)],
                           beyond)

\* mutant: the legacy hardware timestamp is taken from the raw hardware slot
TimestampSlot_legacy_raw(type) ==
    CASE type = "TS_SOFTWARE" -> 0
      [] type \in {"TS_HARDWARE", "TS_ONESTEP", "TS_LEGACY_HW"} -> 2
      [] OTHER -> -1

\* the final switch of sk_receive: the slot of ts[] copied to hwts->ts
TimestampSlot(type) ==
    CASE type = "TS_SOFTWARE" -> 0
      [] type \in {"TS_HARDWARE", "TS_ONESTEP"} -> 2
      [] type = "TS_LEGACY_HW" -> 1
      [] OTHER -> -1

(***************************************************************************)
(* sk_receive without SJA1105_TC, from recvmsg to the end: the handle as   *)
(* the call leaves it, whether addr->len was written, the return value.    *)
(***************************************************************************)
KernelExtract(cnt, chain, hwts, beyond) ==
    LET st == CmsgLoop(chain,
                       [ts |-> <<>>, sw |-> hwts.sw,
                        short |-> FALSE, beyond |-> FALSE],
                       beyond)
        slot == TimestampSlot(hwts.type)
    IN  IF st.short
            THEN [hwts |-> [hwts EXCEPT !.sw = st.sw], addr_len |-> FALSE,
                  beyond |-> st.beyond, ret |-> -1]
        ELSE IF st.ts = <<>>
            THEN [hwts |-> [hwts EXCEPT !.sw = st.sw, !.ts = ZeroTimespec],
                  addr_len |-> TRUE, beyond |-> st.beyond, ret |-> cnt]
        ELSE IF slot < 0
            THEN [hwts |-> [hwts EXCEPT !.sw = st.sw],
                  addr_len |-> TRUE, beyond |-> st.beyond, ret |-> cnt]
        ELSE [hwts |-> [hwts EXCEPT !.sw = st.sw,
                                    !.ts = ReadTimespec(st.ts[1], slot, beyond)],
              addr_len |-> TRUE,
              beyond |-> st.beyond \/ ReadsBeyond(st.ts[1], slot),
              ret |-> cnt]

\* What recvmsg delivers: it fails (-1, control[] left zeroed: no record the
\* loop recognises), or it returns a byte count and a chain of records.
RecvAnswers ==
    {[cnt |-> -1, chain |-> <<>>]}
    \cup {[cnt |-> c, chain |-> ch] : c \in {0, 44}, ch \in CmsgChains}

sk_receive ==
    /\ last = Idle
    /\ ~SJA1105_TC
    /\ \E flags \in ReceiveFlags, hwts \in HwTimestamps :
         \E p \in TxPollRuns(flags, sk_events, sk_revents) :
            IF ~p.proceed
                THEN last' = [op |-> "sk_receive", flags |-> flags,
                              polls |-> p.polls, recvs |-> <<>>,
                              hwts_in |-> hwts, hwts |-> hwts,
                              addr_len |-> FALSE, beyond |-> FALSE,
                              ret |-> p.ret]
                ELSE \E r \in RecvAnswers, beyond \in BeyondRecord :
                        LET x == KernelExtract(r.cnt, r.chain, hwts, beyond)
                        IN  last' = [op |-> "sk_receive", flags |-> flags,
                                     polls |-> p.polls,
                                     recvs |-> <<[flags |-> flags, cnt |-> r.cnt,
                                                  chain |-> r.chain]>>,
                                     hwts_in |-> hwts, hwts |-> x.hwts,
                                     addr_len |-> x.addr_len,
                                     beyond |-> x.beyond, ret |-> x.ret]
    /\ UNCHANGED globals

(***************************************************************************)
(* Bit operations on naturals (uint64_t values within TLC's integers).     *)
(* AndNot(x, m) is x & ~m.                                                 *)
(***************************************************************************)
RECURSIVE BitOr(_, _)
BitOr(x, y) ==
    IF x = 0 THEN y
    ELSE IF y = 0 THEN x
    ELSE (IF x % 2 = 1 \/ y % 2 = 1 THEN 1 ELSE 0) + 2 * BitOr(x \div 2, y \div 2)

RECURSIVE AndNot(_, _)
AndNot(x, m) ==
    IF x = 0 THEN 0
    ELSE (IF x % 2 = 1 /\ m % 2 = 0 THEN 1 ELSE 0) + 2 * AndNot(x \div 2, m \div 2)

(***************************************************************************)
(* Multi-byte header fields of a PTP message in buf are kept as they lie   *)
(* in memory, in network byte order, most significant byte first.          *)
(***************************************************************************)
\* ntohs of a UInteger16 field
ntohs(field) == field[1] * 256 + field[2]

\* the field as the (little-endian) host reads it without a conversion
HostOrder16(field) == field[2] * 256 + field[1]

\* the bytes of a UInteger16 on the wire
Wire16(v) == <<(v \div 256) % 256, v % 256>>

RECURSIVE LowBytesFirst(_, _)
LowBytesFirst(v, n) ==
    IF n = 0 THEN <<>> ELSE <<v % 256>> \o LowBytesFirst(v \div 256, n - 1)

Reverse(seq) == [i \in 1..Len(seq) |-> seq[Len(seq) + 1 - i]]

\* mutant: the value is stored as the little-endian host holds it
host2net64_no_swap(v) == LowBytesFirst(v, 8)

\* the memory image of host2net64(v): the eight bytes of v, most significant first
host2net64(v) == Reverse(LowBytesFirst(v, 8))

(***************************************************************************)
(* ptp_insert_correction (SJA1105_TC).  clock is tc (master_setup and      *)
(* interface->sync, <<>> for a null pointer, <<sequenceId>> otherwise),    *)
(* tx_ts is sync_tx_ts.tx_ts.                                              *)
(***************************************************************************)
FOLLOW_UP == 8

\* mutant: the sequence number of the message is compared without ntohs
ptp_insert_correction_no_ntohs(m, clock, tx_ts) ==
    IF m.tsmt % 16 # FOLLOW_UP THEN m
    ELSE IF clock.master_setup = 0 THEN m
    ELSE IF clock.sync = <<>> THEN m
    ELSE IF clock.sync[1] = HostOrder16(m.sequenceId)
        THEN [m EXCEPT !.correction = host2net64(tx_ts)]
    ELSE m

ptp_insert_correction(m, clock, tx_ts) ==
    IF m.tsmt % 16 # FOLLOW_UP THEN m            \* switch (m->header.tsmt & 0x0f)
    ELSE IF clock.master_setup = 0 THEN m
    ELSE IF clock.sync = <<>> THEN m
    ELSE IF clock.sync[1] = ntohs(m.sequenceId)
        THEN [m EXCEPT !.correction = host2net64(tx_ts)]
    ELSE m

(***************************************************************************)
(* The switch-assisted receive timestamp: the tail of sk_receive under     *)
(* SJA1105_TC.  ts is the clock read at entry, meta the metadata record.   *)
(***************************************************************************)
NS_PER_SEC == 1000000000

Low24 == 16777215

\* mutant: the low 24 bits of the coarse counter are not cleared before the or
RxCounter_unmasked(ts, meta) ==
    BitOr((ts.tv_sec * NS_PER_SEC + ts.tv_nsec) \div 8,
          BitOr(BitOr(meta.rx_ts_byte2 * 65536, meta.rx_ts_byte1 * 256),
                meta.rx_ts_byte0))

\* rx_ts
RxCounter(ts, meta) ==
    BitOr(AndNot((ts.tv_sec * NS_PER_SEC + ts.tv_nsec) \div 8, Low24),
          BitOr(BitOr(meta.rx_ts_byte2 * 65536, meta.rx_ts_byte1 * 256),
                meta.rx_ts_byte0))

\* hwts->ts
RxTimestamp(rx_ts) ==
    Timespec((rx_ts * 8) \div 1000000000, (rx_ts * 8) % 1000000000)

(***************************************************************************)
(* What the switch and the wire deliver to a switch-assisted receive.      *)
(***************************************************************************)
\* sja1105_ptp_clk_get: coarse reads of the switch clock
ClockReads ==
    {Timespec(0, 0), Timespec(0, 999999999), Timespec(1, 123456789)}

MetaBytes == {<<0, 0, 0>>, <<255, 255, 255>>, <<18, 52, 86>>}

MetaRecords ==
    {[rx_ts_byte0 |-> b[1], rx_ts_byte1 |-> b[2], rx_ts_byte2 |-> b[3],
      src_port |-> p] : b \in MetaBytes, p \in {0, 1}}

MetaFrameLen == 22

\* sk_receive_meta: the poll, the recvmsg and the record copied out of data[].
\* A frame shorter than MetaFrameLen leaves the rest of data[] as it was on the
\* stack, so the record then holds any bytes.
MetaAnswers ==
    {[res |-> r, cnt |-> 0, meta |-> <<>>] : r \in {-1, 0}}
    \cup {[res |-> 1, cnt |-> c, meta |-> <<>>] : c \in {-1, 0}}
    \cup {[res |-> 1, cnt |-> c, meta |-> <<m>>] :
             c \in {5, MetaFrameLen}, m \in MetaRecords}

sk_receive_meta(answer) ==
    IF answer.res <= 0 THEN -1
    ELSE IF answer.cnt < 1 THEN -1
    ELSE 0

SequenceIds == {1, 256}

Sync == 0

Delay_Req == 1

PtpMessages ==
    {[tsmt |-> t, sequenceId |-> Wire16(q),
      correction |-> <<0, 0, 0, 0, 0, 0, 0, 5>>, messageLength |-> Wire16(44)] :
        t \in {Sync, Delay_Req, FOLLOW_UP, 16 + FOLLOW_UP}, q \in SequenceIds}

SizeofEthHdr == 14

\* the ports of the switch and its host port, as bit sets
SJA1105_PORT == {0, 1, 2, 3, 4}

SJA1105_PORT_HOST == {4}

EgressTimes == {Timespec(0, 500), Timespec(1, 7)}

\* sja1105_ptpegr_ts_poll: non-zero without a timestamp, zero with one
EgressAnswers ==
    {[err |-> -1, tx_ts |-> ZeroTimespec]}
    \cup {[err |-> 0, tx_ts |-> t] : t \in EgressTimes}

(***************************************************************************)
(* The end of the forward: egress_ts_tmp is zeroed, then the egress        *)
(* timestamp is polled; with one, the cache takes it in nanoseconds and    *)
(* is marked available; without one, a message is printed.  done: the      *)
(* call goes on to the receive timestamp.                                  *)
(***************************************************************************)
\* mutant: a forward without an egress timestamp fails the receive
EgressPoll_failure_fatal(e, cache) ==
    [done |-> e.err = 0,
     cache |-> IF e.err = 0
                  THEN [tx_ts |-> e.tx_ts.tv_sec * NS_PER_SEC + e.tx_ts.tv_nsec,
                        available |-> 1]
                  ELSE [tx_ts |-> 0, available |-> 0]]

\* mutant: the cache is not zeroed before the egress poll
EgressPoll_no_memset(e, cache) ==
    [done |-> TRUE,
     cache |-> IF e.err = 0
                  THEN [tx_ts |-> e.tx_ts.tv_sec * NS_PER_SEC + e.tx_ts.tv_nsec,
                        available |-> 1]
                  ELSE cache]

EgressPoll(e, cache) ==
    [done |-> TRUE,
     cache |-> IF e.err = 0
                  THEN [tx_ts |-> e.tx_ts.tv_sec * NS_PER_SEC + e.tx_ts.tv_nsec,
                        available |-> 1]
                  ELSE [tx_ts |-> 0, available |-> 0]]

(***************************************************************************)
(* sk_receive under SJA1105_TC, the branch taken after a recvmsg that      *)
(* returned at least one byte with flags != MSG_ERRQUEUE: metadata, route, *)
(* correction, forward, egress poll.  Each run: whether the call goes on   *)
(* to the timestamp, the record in meta, the message as sent, the calls    *)
(* made and the egress cache as left.                                      *)
(***************************************************************************)
ForwardRuns(m, cache) ==
    UNION {
      IF sk_receive_meta(ma) # 0
          THEN {[done |-> FALSE, meta |-> <<>>, meta_recv |-> ma, msg |-> m,
                 route |-> <<>>, sends |-> <<>>, egr |-> <<>>, cache |-> cache]}
      ELSE LET meta == ma.meta[1]
               destports == (SJA1105_PORT \ SJA1105_PORT_HOST) \ {meta.src_port}
               mgmt == [destports |-> destports,
                        macaddr |-> "PTP_E2E_ETH_MULTI_ADDR",
                        ts_regid |-> 0, egr_ts |-> 1]
               fwd == ptp_insert_correction(m, tc, sync_tx_ts)
               len == SizeofEthHdr + ntohs(fwd.messageLength)
               port == IF 0 \in destports THEN 0 ELSE 1
           IN  {[done |-> FALSE, meta |-> <<meta>>, meta_recv |-> ma, msg |-> m,
                 route |-> <<[mgmt |-> mgmt, err |-> -1]>>,
                 sends |-> <<>>, egr |-> <<>>, cache |-> cache]}
               \cup
               {[done |-> FALSE, meta |-> <<meta>>, meta_recv |-> ma, msg |-> fwd,
                 route |-> <<[mgmt |-> mgmt, err |-> 0]>>,
                 sends |-> <<[len |-> len, cnt |-> -1]>>,
                 egr |-> <<>>, cache |-> cache]}
               \cup
               {[done |-> EgressPoll(e, cache).done,
                 meta |-> <<meta>>, meta_recv |-> ma, msg |-> fwd,
                 route |-> <<[mgmt |-> mgmt, err |-> 0]>>,
                 sends |-> <<[len |-> len, cnt |-> len]>>,
                 egr |-> <<[port |-> port, err |-> e.err, tx_ts |-> e.tx_ts]>>,
                 cache |-> EgressPoll(e, cache).cache] :
                  e \in EgressAnswers}
      : ma \in MetaAnswers}

\* the handle a switch-assisted caller passes in: its type is never read
SwitchHwTimestamps == {h \in HwTimestamps : h.type = "TS_HARDWARE"}

\* the call returned before its end: nothing written through hwts
SwitchReturn(flags, hwts, clk, polls, recvs, f, ret) ==
    [op |-> "sk_receive", flags |-> flags, clk |-> clk, polls |-> polls,
     recvs |-> recvs, fwd |-> f, hwts_in |-> hwts, hwts |-> hwts,
     meta |-> <<>>, rx_ts |-> <<>>, addr_len |-> FALSE, ret |-> ret]

\* the call reached its end: hwts->ts is rebuilt from ts and meta
SwitchFinish(flags, hwts, clk, polls, recvs, f, meta, cnt) ==
    LET rx_ts == RxCounter(clk.ts, meta)
    IN  [op |-> "sk_receive", flags |-> flags, clk |-> clk, polls |-> polls,
         recvs |-> recvs, fwd |-> f, hwts_in |-> hwts,
         hwts |-> [hwts EXCEPT !.ts = RxTimestamp(rx_ts)],
         meta |-> <<meta>>, rx_ts |-> <<rx_ts>>, addr_len |-> TRUE, ret |-> cnt]

\* recvmsg on the data socket: it fails, or delivers cnt bytes holding a message
SwitchRecvAnswers ==
    {[cnt |-> c, buf |-> <<>>] : c \in {-1, 0}}
    \cup {[cnt |-> 58, buf |-> <<m>>] : m \in PtpMessages}

sk_receive_SJA1105_TC ==
    /\ last = Idle
    /\ SJA1105_TC
    /\ \E flags \in ReceiveFlags, hwts \in SwitchHwTimestamps :
        \/ \* sja1105_ptp_clk_get failed
           /\ last' = SwitchReturn(flags, hwts, [err |-> -1, ts |-> ZeroTimespec],
                                   <<>>, <<>>, <<>>, -1)
           /\ UNCHANGED egress_ts_tmp
        \/ \E now \in ClockReads :
            \E p \in TxPollRuns(flags, sk_events, sk_revents) :
              LET clk == [err |-> 0, ts |-> now]
              IN  IF ~p.proceed
                    THEN /\ last' = SwitchReturn(flags, hwts, clk, p.polls,
                                                 <<>>, <<>>, p.ret)
                         /\ UNCHANGED egress_ts_tmp
                    ELSE \E r \in SwitchRecvAnswers :
                          LET recvs == <<[flags |-> flags, cnt |-> r.cnt,
                                          buf |-> r.buf]>>
                          IN  IF r.cnt >= 1 /\ flags # "MSG_ERRQUEUE"
                                THEN \E f \in ForwardRuns(r.buf[1], egress_ts_tmp) :
                                       /\ egress_ts_tmp' = f.cache
                                       /\ last' =
                                            IF f.done
                                              THEN SwitchFinish(flags, hwts, clk,
                                                     p.polls, recvs, <<f>>,
                                                     f.meta[1], r.cnt)
                                              ELSE SwitchReturn(flags, hwts, clk,
                                                     p.polls, recvs, <<f>>, -1)
                                ELSE \* meta was never filled in: it holds what
                                     \* was on the stack
                                     \E meta \in MetaRecords :
                                       /\ last' = SwitchFinish(flags, hwts, clk,
                                                    p.polls, recvs, <<>>,
                                                    meta, r.cnt)
                                       /\ UNCHANGED egress_ts_tmp
    /\ UNCHANGED <<SJA1105_TC, sk_events, sk_revents, sk_check_fupsync, tc,
                   sync_tx_ts>>

(***************************************************************************)
(* The rest of the transparent clock, which owns tc and sync_tx_ts: it     *)
(* comes up as master, records the Sync it last saw on the interface, and  *)
(* takes the egress timestamp of a forward as the one to insert.           *)
(***************************************************************************)
tc_master_setup ==
    /\ last = Idle
    /\ SJA1105_TC
    /\ tc.master_setup = 0
    /\ tc' = [tc EXCEPT !.master_setup = 1]
    /\ UNCHANGED <<SJA1105_TC, sk_events, sk_revents, sk_check_fupsync,
                   sync_tx_ts, egress_ts_tmp, last>>

tc_record_sync ==
    /\ last = Idle
    /\ SJA1105_TC
    /\ \E q \in SequenceIds : tc' = [tc EXCEPT !.sync = <<q>>]
    /\ UNCHANGED <<SJA1105_TC, sk_events, sk_revents, sk_check_fupsync,
                   sync_tx_ts, egress_ts_tmp, last>>

tc_take_egress_ts ==
    /\ last = Idle
    /\ SJA1105_TC
    /\ egress_ts_tmp.available = 1
    /\ sync_tx_ts' = egress_ts_tmp.tx_ts
    /\ UNCHANGED <<SJA1105_TC, sk_events, sk_revents, sk_check_fupsync,
                   tc, egress_ts_tmp, last>>

(***************************************************************************)
(* sk_get_ts_info.  The answer of the system: the query is not compiled in *)
(* (no ETHTOOL_GET_TS_INFO), socket() fails, the SIOCETHTOOL ioctl fails,  *)
(* or it fills in info.  sk_info comes in holding what the caller had.     *)
(***************************************************************************)
EthtoolTsInfos ==
    [phc_index       : {-1, 1},
     so_timestamping : {{"SOF_TIMESTAMPING_SOFTWARE"},
                        {"SOF_TIMESTAMPING_TX_HARDWARE",
                         "SOF_TIMESTAMPING_RX_HARDWARE",
                         "SOF_TIMESTAMPING_RAW_HARDWARE"}},
     tx_types        : {{}, {"HWTSTAMP_TX_OFF", "HWTSTAMP_TX_ON"}},
     rx_filters      : {{"HWTSTAMP_FILTER_NONE"},
                        {"HWTSTAMP_FILTER_NONE", "HWTSTAMP_FILTER_PTP_V2_EVENT"}}]

EthtoolAnswers ==
    {[compiled |-> FALSE, fd |-> -1, err |-> -1, info |-> <<>>],
     [compiled |-> TRUE,  fd |-> -1, err |-> -1, info |-> <<>>],
     [compiled |-> TRUE,  fd |-> 3,  err |-> -1, info |-> <<>>]}
    \cup {[compiled |-> TRUE, fd |-> 3, err |-> 0, info |-> <<i>>] :
             i \in EthtoolTsInfos}

\* memset(sk_info, 0, sizeof(struct sk_ts_info))
ZeroTsInfo ==
    [valid |-> 0, phc_index |-> 0, so_timestamping |-> {},
     tx_types |-> {}, rx_filters |-> {}]

\* what the caller's struct can hold before the call
TsInfoBefore ==
    {ZeroTsInfo,
     [valid |-> 1, phc_index |-> 2,
      so_timestamping |-> {"SOF_TIMESTAMPING_SYS_HARDWARE"},
      tx_types |-> {"HWTSTAMP_TX_ONESTEP_SYNC"},
      rx_filters |-> {"HWTSTAMP_FILTER_ALL"}]}

\* mutant: the failure path returns without clearing the caller's struct
GetTsInfo_failure_keeps_struct(answer, sk_info) ==
    IF answer.compiled /\ answer.fd >= 0 /\ answer.err >= 0
        THEN [sk_info |-> [valid |-> 1,
                           phc_index |-> answer.info[1].phc_index,
                           so_timestamping |-> answer.info[1].so_timestamping,
                           tx_types |-> answer.info[1].tx_types,
                           rx_filters |-> answer.info[1].rx_filters],
              ret |-> 0]
        ELSE [sk_info |-> sk_info, ret |-> -1]

GetTsInfo(answer, sk_info) ==
    IF ~answer.compiled THEN [sk_info |-> ZeroTsInfo, ret |-> -1]
    ELSE IF answer.fd < 0 THEN [sk_info |-> ZeroTsInfo, ret |-> -1]
    ELSE IF answer.err < 0 THEN [sk_info |-> ZeroTsInfo, ret |-> -1]
    ELSE [sk_info |-> [ZeroTsInfo EXCEPT
                          !.valid = 1,
                          !.phc_index = answer.info[1].phc_index,
                          !.so_timestamping = answer.info[1].so_timestamping,
                          !.tx_types = answer.info[1].tx_types,
                          !.rx_filters = answer.info[1].rx_filters],
          ret |-> 0]

sk_get_ts_info ==
    /\ last = Idle
    /\ \E answer \in EthtoolAnswers, before \in TsInfoBefore :
         LET r == GetTsInfo(answer, before)
         IN  last' = [op |-> "sk_get_ts_info", answer |-> answer,
                      sk_info_in |-> before, sk_info |-> r.sk_info,
                      ret |-> r.ret]
    /\ UNCHANGED globals

(***************************************************************************)
(* sk_set_priority.  The socket holds its IP_TOS byte; getsockopt reads    *)
(* it into tos or fails, and then tos is 0; setsockopt stores the low      *)
(* byte of tos or fails and leaves the socket as it was.                   *)
(***************************************************************************)
\* the TOS byte of the socket before the call
TosBytes == {0, 1, 2, 3, 184, 255}

\* the uint8_t dscp argument, within its six bits
DscpValues == {0, 1, 46, 63}

\* mutant: the DiffServ bits the byte held are not cleared first
SetTos_no_clear(tos, dscp) == BitOr(tos, dscp * 4)

\* tos &= ~0xFC; tos |= dscp << 2;
SetTos(tos, dscp) == BitOr(AndNot(tos, 252), dscp * 4)

SetPriority(ip_tos, dscp, get, set) ==
    LET tos == SetTos(IF get < 0 THEN 0 ELSE ip_tos, dscp)
    IN  [getsockopt |-> [opt |-> "IP_TOS", res |-> get],
         setsockopt |-> Setsockopt("IP_TOS", tos, set),
         ip_tos |-> IF set < 0 THEN ip_tos ELSE tos % 256,
         ret |-> IF set < 0 THEN -1 ELSE 0]

sk_set_priority ==
    /\ last = Idle
    /\ \E ip_tos \in TosBytes, dscp \in DscpValues,
          get \in SyscallResults, set \in SyscallResults :
         LET r == SetPriority(ip_tos, dscp, get, set)
         IN  last' = [op |-> "sk_set_priority", dscp |-> dscp,
                      ip_tos_in |-> ip_tos, getsockopt |-> r.getsockopt,
                      setsockopt |-> r.setsockopt, ip_tos |-> r.ip_tos,
                      ret |-> r.ret]
    /\ UNCHANGED globals

(***************************************************************************)
(* The caller takes the result of the call that returned.                  *)
(***************************************************************************)
CallerContinues ==
    /\ last # Idle
    /\ last' = Idle
    /\ UNCHANGED globals

Init ==
    /\ SJA1105_TC \in BOOLEAN
    /\ sk_events = {"POLLPRI"}
    /\ sk_revents = {"POLLPRI"}
    /\ sk_check_fupsync \in {0, 1}
    /\ tc = [master_setup |-> 0, sync |-> <<>>]
    /\ sync_tx_ts = 0
    /\ egress_ts_tmp = [tx_ts |-> 0, available |-> 0]
    /\ last = Idle

Next ==
    \/ sk_timestamping_init
    \/ sk_receive
    \/ sk_receive_SJA1105_TC
    \/ sk_get_ts_info
    \/ sk_set_priority
    \/ tc_master_setup
    \/ tc_record_sync
    \/ tc_take_egress_ts
    \/ CallerContinues

Spec == Init /\ [][Next]_vars

(***************************************************************************)
(*                              The claims                                 *)
(***************************************************************************)
InitCall == last.op = "sk_timestamping_init"

Rejected(attempt) == attempt.err # 0

ExpectedFallbackFilter(transport) ==
    IF transport \in UdpTransports THEN "HWTSTAMP_FILTER_PTP_V2_L4_EVENT"
                                   ELSE "HWTSTAMP_FILTER_PTP_V2_L2_EVENT"

C1_Case ==
    InitCall /\ last.type \in HwKinds /\ last.transport \in MappedTransports

\* C1: with a hardware timestamp kind and a mapped transport, the first
\* SIOCSHWTSTAMP attempt asks for PTP_V2_EVENT; there is a second attempt
\* exactly when the first one was rejected (hwts_init returned non-zero), and
\* it asks for the transport's filter (L4 for UDP, L2 for IEEE 802.3); when
\* both are rejected the call fails; a call never makes more than two attempts.
C1_BoundedFilterFallback ==
    C1_Case =>
        /\ Len(last.ioctls) \in {1, 2}
        /\ last.ioctls[1].req.rx_filter = "HWTSTAMP_FILTER_PTP_V2_EVENT"
        /\ (Len(last.ioctls) = 2) = Rejected(last.ioctls[1])
        /\ Len(last.ioctls) = 2 =>
              last.ioctls[2].req.rx_filter = ExpectedFallbackFilter(last.transport)
        /\ (\A i \in 1..Len(last.ioctls) : Rejected(last.ioctls[i])) => last.ret # 0

C1_BothRejected ==
    /\ C1_Case
    /\ Len(last.ioctls) = 2
    /\ last.ioctls[1].ioctl_err < 0
    /\ Rejected(last.ioctls[2])
    /\ last.ret # 0

\* C2: when an attempt's ioctl succeeds and the driver echoes a transmit mode
\* other than the one requested, sk_timestamping_init fails.
C2_ChangedTxModeFailsNegotiation ==
    (/\ InitCall
     /\ \E i \in 1..Len(last.ioctls) :
           /\ last.ioctls[i].ioctl_err = 0
           /\ last.ioctls[i].cfg.tx_type # last.ioctls[i].req.tx_type)
    => last.ret # 0

C3_Case ==
    InitCall /\ last.type \in HwKinds /\ last.transport \in UnmappedTransports

\* C3: with a hardware timestamp kind and a transport without a filter mapping
\* (DeviceNet, ControlNet, Profinet, UDS) the call returns an error and has
\* issued no SIOCSHWTSTAMP ioctl.
C3_UnmappedTransportFailsAtOnce ==
    C3_Case => last.ret # 0 /\ last.ioctls = <<>>

C3_UnmappedCall == C3_Case /\ last.transport = "TRANS_UDS" /\ last.ret = -1

C4_Case == InitCall /\ last.type = "TS_SOFTWARE"

\* C4: a call with TS_SOFTWARE issues no SIOCSHWTSTAMP ioctl, for every
\* transport and every outcome of the setsockopt calls, and the flags it hands
\* to SO_TIMESTAMPING are exactly TX_SOFTWARE, RX_SOFTWARE and SOFTWARE.
C4_SoftwareNeverTouchesHardware ==
    C4_Case =>
        /\ last.ioctls = <<>>
        /\ Len(last.sockopts) >= 1
        /\ \A i \in 1..Len(last.sockopts) :
              last.sockopts[i].opt = "SO_TIMESTAMPING" =>
                  last.sockopts[i].val =
                      {"SOF_TIMESTAMPING_TX_SOFTWARE",
                       "SOF_TIMESTAMPING_RX_SOFTWARE",
                       "SOF_TIMESTAMPING_SOFTWARE"}

C4_SoftwareOnMappedTransport ==
    /\ C4_Case
    /\ last.transport = "TRANS_UDP_IPV4"
    /\ Len(last.sockopts) = 3
    /\ last.sockopts[2].res < 0
    /\ last.ret = 0

TxFetch ==
    last.op = "sk_receive" /\ last.flags = "MSG_ERRQUEUE" /\ last.polls # <<>>

\* C5: in a transmit-timestamp fetch a poll that timed out returns 0, while a
\* poll that failed and a poll that woke without any of the expected event bits
\* return a negative value: the timeout is told from both by the return value.
C5_TimeoutToldApart ==
    TxFetch =>
        LET p == last.polls[1]
        IN  /\ p.res = 0 => last.ret = 0
            /\ p.res < 0 => last.ret < 0
            /\ (p.res >= 1 /\ p.revents \cap sk_revents = {}) => last.ret < 0

C5_TimedOut == TxFetch /\ last.polls[1].res = 0 /\ last.ret = 0

KernelReceive ==
    last.op = "sk_receive" /\ ~SJA1105_TC /\ last.recvs # <<>>

PayloadBytes(cm) == cm.cmsg_len - SizeofCmsghdr

Truncated(cm) ==
    \/ IsTimestamping(cm) /\ PayloadBytes(cm) < 3 * SizeofTimespec
    \/ IsTimestampns(cm) /\ PayloadBytes(cm) < SizeofTimespec

\* C6: when the chain holds an SO_TIMESTAMPING record with a payload shorter
\* than three timespecs or an SO_TIMESTAMPNS record with a payload shorter than
\* one, sk_receive returns -1 and has written neither hwts->ts nor hwts->sw,
\* whatever the order of the records.
C6_TruncatedRecordFails ==
    (/\ KernelReceive
     /\ \E i \in 1..Len(last.recvs[1].chain) : Truncated(last.recvs[1].chain[i]))
    => /\ last.ret = -1
       /\ last.hwts.ts = last.hwts_in.ts
       /\ last.hwts.sw = last.hwts_in.sw

WellFormed(chain) == \A i \in 1..Len(chain) : ~Truncated(chain[i])

TimestampingRecords(chain) == {i \in 1..Len(chain) : IsTimestamping(chain[i])}

ExpectedSlot(type) ==
    CASE type = "TS_SOFTWARE" -> 1
      [] type \in {"TS_HARDWARE", "TS_ONESTEP"} -> 3
      [] type = "TS_LEGACY_HW" -> 2

\* C7: for every timestamp kind and every well-formed chain, sk_receive returns
\* the byte count of recvmsg and leaves in hwts->ts the first timespec of the
\* SO_TIMESTAMPING record for Software, the third for Hardware and OneStep, the
\* second for LegacyHardware, and the zero timestamp when the chain has no
\* SO_TIMESTAMPING record; no read goes past a record's payload.
C7_SlotByKind ==
    (KernelReceive /\ WellFormed(last.recvs[1].chain)) =>
        LET chain == last.recvs[1].chain
            recs  == TimestampingRecords(chain)
            m     == CHOOSE i \in recs : \A j \in recs : j <= i
        IN  /\ last.ret = last.recvs[1].cnt
            /\ ~last.beyond
            /\ last.hwts.ts = IF recs = {} THEN ZeroTimespec
                              ELSE chain[m].data[ExpectedSlot(last.hwts_in.type)]

C7_LegacyFromSecondRecord ==
    /\ KernelReceive
    /\ WellFormed(last.recvs[1].chain)
    /\ last.hwts_in.type = "TS_LEGACY_HW"
    /\ TimestampingRecords(last.recvs[1].chain) = {1, 2}
    /\ last.ret = 44
    /\ last.hwts.ts = last.recvs[1].chain[2].data[2]

Forwarded ==
    /\ last.op = "sk_receive"
    /\ SJA1105_TC
    /\ last.fwd # <<>>
    /\ last.fwd[1].route # <<>>
    /\ last.fwd[1].route[1].err = 0

IsFollowUp(m) == m.tsmt % 16 = 8

SequenceNumber(m) == m.sequenceId[1] * 256 + m.sequenceId[2]

\* C8: a forwarded message leaves ptp_insert_correction with another correction
\* field only if it is a Follow_Up whose sequence number is that of the Sync
\* last recorded for the interface; a Follow_Up with another sequence number, a
\* Follow_Up when no Sync is recorded and every other message keep theirs.
C8_CorrectionOnlyForMatchingFollowUp ==
    Forwarded =>
        LET received == last.recvs[1].buf[1]
            sent     == last.fwd[1].msg
        IN  sent.correction # received.correction =>
                /\ IsFollowUp(received)
                /\ tc.sync # <<>>
                /\ tc.sync[1] = SequenceNumber(received)

C8_CorrectionInserted ==
    /\ Forwarded
    /\ IsFollowUp(last.recvs[1].buf[1])
    /\ SequenceNumber(last.recvs[1].buf[1]) = 256
    /\ last.fwd[1].msg.correction # last.recvs[1].buf[1].correction

SwitchTimestamped ==
    last.op = "sk_receive" /\ SJA1105_TC /\ last.rx_ts # <<>>

\* C9: the counter rx_ts rebuilt from the clock read (sec, nsec) and the
\* metadata bytes has byte2<<16 | byte1<<8 | byte0 as its low 24 bits and the
\* bits of floor((sec*10^9 + nsec)/8) above them, and hwts->ts is rx_ts*8
\* split into seconds (div 10^9) and nanoseconds (mod 10^9).
C9_ReconstructedCounter ==
    SwitchTimestamped =>
        LET rx     == last.rx_ts[1]
            meta   == last.meta[1]
            coarse == (last.clk.ts.tv_sec * 1000000000 + last.clk.ts.tv_nsec) \div 8
        IN  /\ rx % 16777216 = meta.rx_ts_byte2 * 65536 + meta.rx_ts_byte1 * 256
                               + meta.rx_ts_byte0
            /\ rx \div 16777216 = coarse \div 16777216
            /\ last.hwts.ts.tv_sec = (rx * 8) \div 1000000000
            /\ last.hwts.ts.tv_nsec = (rx * 8) % 1000000000

C9_ReceivedWithMetadata ==
    /\ SwitchTimestamped
    /\ last.fwd # <<>>
    /\ last.clk.ts = Timespec(1, 123456789)
    /\ last.meta[1].rx_ts_byte0 = 18
    /\ last.meta[1].rx_ts_byte2 = 86
    /\ last.ret = 58

InfoCall == last.op = "sk_get_ts_info"

QueryFailed ==
    ~last.answer.compiled \/ last.answer.fd < 0 \/ last.answer.err < 0

InfoRecordAsClaimed ==
    IF QueryFailed
        THEN /\ last.sk_info.valid = 0
             /\ last.sk_info.phc_index = 0
             /\ last.sk_info.so_timestamping = {}
             /\ last.sk_info.tx_types = {}
             /\ last.sk_info.rx_filters = {}
        ELSE /\ last.sk_info.valid = 1
             /\ last.sk_info.phc_index = last.answer.info[1].phc_index
             /\ last.sk_info.so_timestamping = last.answer.info[1].so_timestamping
             /\ last.sk_info.tx_types = last.answer.info[1].tx_types
             /\ last.sk_info.rx_filters = last.answer.info[1].rx_filters

\* C10 as stated: a capability query that is unsupported or fails leaves a
\* record with valid = 0 and every other field zero and is reported as a valid
\* result, not as an error (the call does not return its failure value); on
\* success the record has valid = 1 and the queried fields.
C10_UnsupportedIsNotAnError ==
    InfoCall => InfoRecordAsClaimed /\ last.ret = 0

\* C10 amended: the record is as claimed, and the call returns -1 when the
\* query is unsupported or fails and 0 when it succeeds.
C10_UnsupportedClearsRecordAndReturnsFailure ==
    InfoCall =>
        /\ InfoRecordAsClaimed
        /\ last.ret = IF QueryFailed THEN -1 ELSE 0

C10_FailedQueryOverStaleRecord ==
    /\ InfoCall
    /\ last.answer.compiled
    /\ last.answer.fd >= 0
    /\ last.answer.err < 0
    /\ last.sk_info_in.valid = 1
    /\ last.sk_info.valid = 0
    /\ last.ret = -1

PriorityCall == last.op = "sk_set_priority"

\* the byte read back through IP_TOS after the call, split as the claim does
Bits7to2(tos) == tos \div 4

Bits1to0(tos) == tos % 4

\* C11 as stated: after a successful sk_set_priority(fd, d), d in 0..63, the
\* TOS read back has bits 7..2 equal to d and bits 1..0 equal to their value
\* before the call, for every prior TOS byte.
C11_DscpRoundTripKeepsLowBits ==
    PriorityCall /\ last.ret = 0 =>
        /\ Bits7to2(last.ip_tos) = last.dscp
        /\ Bits1to0(last.ip_tos) = Bits1to0(last.ip_tos_in)

\* C11 amended: after a successful sk_set_priority(fd, d) the TOS read back
\* has bits 7..2 equal to d; bits 1..0 are their value before the call when
\* the prior byte could be read, and 0 when reading it failed.
C11_DscpRoundTrip ==
    PriorityCall /\ last.ret = 0 =>
        /\ Bits7to2(last.ip_tos) = last.dscp
        /\ Bits1to0(last.ip_tos) =
              IF last.getsockopt.res < 0 THEN 0 ELSE Bits1to0(last.ip_tos_in)

C11_DscpReplacedLowBitsKept ==
    /\ PriorityCall
    /\ last.ret = 0
    /\ last.getsockopt.res = 0
    /\ last.ip_tos_in = 255
    /\ last.dscp = 46
    /\ last.ip_tos = 187

SwitchCall == last.op = "sk_receive" /\ SJA1105_TC

\* a switch-assisted receive that got a data frame and went on to forward it
DataFrameReceived ==
    /\ SwitchCall
    /\ last.flags # "MSG_ERRQUEUE"
    /\ Len(last.recvs) = 1
    /\ last.recvs[1].cnt >= 1

NoTimestampProduced == last.hwts = last.hwts_in /\ last.rx_ts = <<>>

MetaPollTimedOut == last.fwd[1].meta_recv.res = 0

RouteSetFailed == last.fwd[1].route # <<>> /\ last.fwd[1].route[1].err # 0

ForwardFailed == last.fwd[1].sends # <<>> /\ last.fwd[1].sends[1].cnt < 1

EgressPollFailed == last.fwd[1].egr # <<>> /\ last.fwd[1].egr[1].err # 0

\* C12: in a switch-assisted receive of a data frame, a metadata poll timeout,
\* a failed management-route set and a failed forward each make sk_receive
\* return -1 with no timestamp written; a failed egress-timestamp poll does not:
\* the call returns the received byte count and the reconstructed receive
\* timestamp.
C12_FatalAndNonFatalForwardErrors ==
    DataFrameReceived =>
        /\ last.fwd # <<>>
        /\ MetaPollTimedOut \/ RouteSetFailed \/ ForwardFailed =>
              last.ret = -1 /\ NoTimestampProduced
        /\ EgressPollFailed =>
              /\ last.ret = last.recvs[1].cnt
              /\ last.rx_ts = <<RxCounter(last.clk.ts, last.fwd[1].meta[1])>>
              /\ last.hwts.ts = RxTimestamp(last.rx_ts[1])

C12_EgressPollFailedReceiveSucceeds ==
    /\ DataFrameReceived
    /\ EgressPollFailed
    /\ last.ret = 58
    /\ last.hwts.ts # last.hwts_in.ts

ReceiveCall == last.op = "sk_receive"

\* the one poll of the call answered with an event among those in sk_revents
PollWokeOnExpectedEvent ==
    /\ last.polls[1].res >= 1
    /\ last.polls[1].revents \cap sk_revents # {}

TxFetchProtocol ==
    /\ Len(last.polls) = 1
    /\ last.polls[1].events = sk_events
    /\ last.polls[1].timeout = sk_tx_timeout
    /\ Len(last.recvs) <= 1
    /\ Len(last.recvs) = 1 <=> PollWokeOnExpectedEvent
    /\ last.recvs # <<>> => last.recvs[1].flags = "MSG_ERRQUEUE"
    /\ ~PollWokeOnExpectedEvent => last.hwts = last.hwts_in

NoPollBeforeRecvmsg == last.polls = <<>> /\ Len(last.recvs) <= 1

\* C13 as stated: every sk_receive with flags == MSG_ERRQUEUE makes exactly one
\* poll, bounded by sk_tx_timeout, and no retry; it issues the error-queue
\* recvmsg iff that poll returned at least one event and the returned bits
\* intersect sk_revents; otherwise it returns with no recvmsg and the timestamp
\* unwritten.  A receive with flags != MSG_ERRQUEUE never polls before its
\* recvmsg.
C13_EveryTxFetchPollsOnce ==
    ReceiveCall =>
        IF last.flags = "MSG_ERRQUEUE" THEN TxFetchProtocol
                                       ELSE NoPollBeforeRecvmsg

\* the call got as far as the poll: in the switch-assisted build the read of
\* the switch clock that opens sk_receive succeeded
ReachedTxPoll == SJA1105_TC => last.clk.err = 0

\* C13 amended: every sk_receive with flags == MSG_ERRQUEUE that is not ended
\* by a failed switch clock read makes exactly one poll, bounded by
\* sk_tx_timeout, and no retry, with the recvmsg issued iff the poll woke on an
\* expected event; one that is ended by the clock read returns -1 with no poll,
\* no recvmsg and the timestamp unwritten.  A receive with flags !=
\* MSG_ERRQUEUE never polls before its recvmsg.
C13_TxFetchPollsOnceUnlessClockReadFails ==
    ReceiveCall =>
        IF last.flags # "MSG_ERRQUEUE" THEN NoPollBeforeRecvmsg
        ELSE IF ReachedTxPoll THEN TxFetchProtocol
        ELSE /\ last.polls = <<>>
             /\ last.recvs = <<>>
             /\ last.hwts = last.hwts_in
             /\ last.ret = -1

C13_SpuriousWakeupNoRecvmsg ==
    /\ ReceiveCall
    /\ last.flags = "MSG_ERRQUEUE"
    /\ last.polls # <<>>
    /\ last.polls[1].res = 1
    /\ last.polls[1].revents = {"POLLHUP"}
    /\ last.recvs = <<>>
    /\ last.ret = -1

PollConfig == <<sk_events, sk_revents>>

ErrQueuePollConfig == <<{"POLLPRI"}, {"POLLPRI"}>>

DegradedPollConfig == <<{}, {"POLLERR"}>>

\* the step is a call of sk_timestamping_init whose SO_SELECT_ERR_QUEUE
\* setsockopt was rejected
ErrQueueRejectedStep ==
    /\ last = Idle
    /\ last'.op = "sk_timestamping_init"
    /\ Len(last'.sockopts) >= 2
    /\ last'.sockopts[2].opt = "SO_SELECT_ERR_QUEUE"
    /\ last'.sockopts[2].res < 0

\* the step is a call of sk_receive that polled for a transmit timestamp
TxPollStep ==
    /\ last = Idle
    /\ last'.op = "sk_receive"
    /\ last'.polls # <<>>

DegradationStep ==
    /\ ErrQueueRejectedStep =>
          /\ PollConfig' = DegradedPollConfig
          /\ last'.sockopts[3].res = 0 => last'.ret = 0
    /\ ~ErrQueueRejectedStep => PollConfig' = PollConfig
    /\ TxPollStep =>
          /\ last'.polls[1].events = sk_events
          /\ last'.recvs # <<>> <=>
                /\ last'.polls[1].res >= 1
                /\ last'.polls[1].revents \cap sk_revents # {}

\* C14: (sk_events, sk_revents) is (POLLPRI, POLLPRI) from the start; a call of
\* sk_timestamping_init whose SO_SELECT_ERR_QUEUE is rejected sets it to
\* (0, POLLERR) and still returns 0 when the remaining option succeeds; no
\* other step changes it, so it is never restored and is always one of these
\* two values; every transmit-timestamp poll uses the pair as it then stands.
C14_ProcessWideDegradation ==
    /\ PollConfig = ErrQueuePollConfig
    /\ [](PollConfig \in {ErrQueuePollConfig, DegradedPollConfig})
    /\ [][DegradationStep]_vars
    /\ [][PollConfig = DegradedPollConfig => PollConfig' = DegradedPollConfig]_vars

C14_TxPollAfterDegradation ==
    /\ PollConfig = DegradedPollConfig
    /\ last.op = "sk_receive"
    /\ last.polls # <<>>
    /\ last.polls[1].events = {}
    /\ last.polls[1].revents = {"POLLERR"}
    /\ last.recvs # <<>>

AcceptedAsClaimed(attempt) ==
    /\ attempt.cfg.tx_type = attempt.req.tx_type
    /\ \/ attempt.cfg.rx_filter = attempt.req.rx_filter
       \/ attempt.cfg.rx_filter \in {"HWTSTAMP_FILTER_ALL",
                                     "HWTSTAMP_FILTER_PTP_V2_EVENT"}

\* C15: a hwts_init attempt whose ioctl succeeded is accepted (returns 0) if
\* and only if the echoed transmit mode equals the requested one and the echoed
\* receive filter equals the requested one or is HWTSTAMP_FILTER_ALL or
\* HWTSTAMP_FILTER_PTP_V2_EVENT; every other echoed configuration fails it.
C15_AcceptedIffCompatibleEcho ==
    InitCall =>
        \A i \in 1..Len(last.ioctls) :
            last.ioctls[i].ioctl_err >= 0 =>
                (last.ioctls[i].err = 0 <=> AcceptedAsClaimed(last.ioctls[i]))

\* the metadata recvmsg delivered fewer bytes than the frame holds
ShortMetadataRead ==
    /\ DataFrameReceived
    /\ last.fwd # <<>>
    /\ last.fwd[1].meta_recv.res >= 1
    /\ last.fwd[1].meta_recv.cnt < MetaFrameLen

\* C16: in a switch-assisted receive, a read of the metadata frame that
\* delivers fewer bytes than the Ethernet header plus the metadata record makes
\* sk_receive return -1, and no receive timestamp is rebuilt from the
\* incomplete metadata.
C16_ShortMetadataReadFails ==
    ShortMetadataRead => last.ret = -1 /\ NoTimestampProduced

\* a switch-assisted receive that forwarded the frame and polled for its
\* egress timestamp
ReachedEgressPoll ==
    /\ SwitchCall
    /\ last.fwd # <<>>
    /\ last.fwd[1].egr # <<>>

Nanoseconds(t) == t.tv_sec * NS_PER_SEC + t.tv_nsec

\* C17: after a switch-assisted receive that reached the egress poll,
\* egress_ts_tmp holds available = 1 and the timestamp that poll returned if
\* the poll succeeded, and available = 0 with a zero timestamp if it did not,
\* whatever earlier forwards had left in it.
C17_SingleSlotEgressCache ==
    ReachedEgressPoll =>
        LET e == last.fwd[1].egr[1]
        IN  IF e.err = 0
              THEN egress_ts_tmp = [tx_ts |-> Nanoseconds(e.tx_ts),
                                    available |-> 1]
              ELSE egress_ts_tmp = [tx_ts |-> 0, available |-> 0]

\* an earlier forward captured a timestamp (the clock took it over into
\* sync_tx_ts); the poll of this one failed and the cache is empty
C17_EarlierTimestampGone ==
    /\ ReachedEgressPoll
    /\ last.fwd[1].egr[1].err # 0
    /\ sync_tx_ts # 0
    /\ egress_ts_tmp = [tx_ts |-> 0, available |-> 0]

\* the call forwarded a Follow_Up that ptp_insert_correction rewrote: the clock
\* is set up as master and the Sync it recorded has the message's number
CorrectionWritten ==
    /\ Forwarded
    /\ IsFollowUp(last.recvs[1].buf[1])
    /\ tc.master_setup # 0
    /\ tc.sync # <<>>
    /\ tc.sync[1] = SequenceNumber(last.recvs[1].buf[1])

\* the eight bytes of v (below 2^32) in network byte order
NetworkOrder64(v) ==
    <<0, 0, 0, 0, (v \div 16777216) % 256, (v \div 65536) % 256,
      (v \div 256) % 256, v % 256>>

\* C18 as stated: the correction field written into a forwarded Follow_Up that
\* matches the recorded Sync is the timestamp held in the egress timestamp
\* cache when the call began, the one the egress poll of the most recent
\* preceding forward left there, in network byte order.
C18_CorrectionIsCachedEgressTimestamp ==
    [][CorrectionWritten' =>
          last'.fwd[1].msg.correction = NetworkOrder64(egress_ts_tmp.tx_ts)]_vars

\* C18 amended: the correction field written is sync_tx_ts.tx_ts, the Sync
\* egress timestamp the transparent clock keeps, in network byte order; the
\* cache egress_ts_tmp is not read.
C18_CorrectionIsSyncTxTimestamp ==
    CorrectionWritten =>
        last.fwd[1].msg.correction = NetworkOrder64(sync_tx_ts)

C18_SyncTimestampInsertedCacheDiffers ==
    /\ CorrectionWritten
    /\ sync_tx_ts = 1000000007
    /\ last.fwd[1].msg.correction = <<0, 0, 0, 0, 59, 154, 202, 7>>
    /\ last.fwd[1].egr # <<>>
    /\ egress_ts_tmp.tx_ts = 500

InitSucceeded == InitCall /\ last.ret = 0

\* the call set SO_TIMESTAMPNS to val, and the kernel accepted it
TimestampnsSetTo(val) ==
    \E i \in 1..Len(last.sockopts) :
        /\ last.sockopts[i].opt = "SO_TIMESTAMPNS"
        /\ last.sockopts[i].val = val
        /\ last.sockopts[i].res = 0

\* C19 as stated: every sk_timestamping_init that returns 0, for every
\* timestamp kind and transport, has switched SO_TIMESTAMPNS on, whatever the
\* settings of the process.
C19_TimestampnsAlwaysOn ==
    InitSucceeded => TimestampnsSetTo(1)

\* C19 amended: every sk_timestamping_init that returns 0 has set
\* SO_TIMESTAMPNS as its last socket option, to on when sk_check_fupsync is
\* non-zero and to off when it is zero.
C19_TimestampnsFollowsCheckFupsync ==
    InitSucceeded =>
        /\ TimestampnsSetTo(IF sk_check_fupsync # 0 THEN 1 ELSE 0)
        /\ last.sockopts[Len(last.sockopts)].opt = "SO_TIMESTAMPNS"

C19_SucceededWithTimestampnsOn ==
    /\ InitSucceeded
    /\ last.type = "TS_ONESTEP"
    /\ last.transport = "TRANS_IEEE_802_3"
    /\ sk_check_fupsync = 1
    /\ TimestampnsSetTo(1)

\* the call received its metadata frame: sk_receive_meta ran and returned 0
MetadataReceived == last.fwd # <<>> /\ last.fwd[1].meta # <<>>

\* C20: in the switch-assisted build, whenever sk_receive writes hwts->ts, the
\* metadata record whose three bytes end up in the timestamp was received by
\* sk_receive_meta during the same call; an error-queue fetch and a call whose
\* data recvmsg returned fewer than 1 byte write no timestamp.
C20_NoTimestampWithoutMetadata ==
    SwitchTimestamped =>
        /\ MetadataReceived
        /\ last.meta = last.fwd[1].meta
        /\ last.flags # "MSG_ERRQUEUE"
        /\ last.recvs[1].cnt >= 1

====
